---- MODULE Spec2Model ----
(***************************************************************************)
(* Model of the dynamic metric registry of app/pingpong.go: the /create    *)
(* and /update handlers, the global name->family map                       *)
(* (metricsMapPrometheus), the collector registry of the server and the    *)
(* counters behind them, run by concurrent request-handling goroutines.    *)
(*                                                                         *)
(* Numeric values are kept in HALVES (2 stands for 1.0, 1 for 0.5), so     *)
(* that a fractional value and the rounding of "%.0f" are both in the      *)
(* model.                                                                  *)
(***************************************************************************)
EXTENDS Integers, Sequences, FiniteSets, TLC

(***************************************************************************)
(* Bounds of the model.                                                    *)
(***************************************************************************)
NTasks == 2        \* requests of one run, each served by its own goroutine
MaxFams == 2       \* families in all the requests of one run
MaxItems == 3      \* samples in all the families of one run

Tasks == 1..NTasks

(***************************************************************************)
(* Inputs: metric names, label maps and value strings of the requests.     *)
(***************************************************************************)
PingName == "ping_request_count"
Names == {"m", "", PingName}

\* The characters of a name, for the identifier grammar.
Chars(n) ==
  CASE n = "m" -> <<"m">>
    [] n = "" -> <<>>
    [] n = PingName -> <<"p", "i", "n", "g", "_", "r", "e", "q", "u", "e", "s", "t",
                         "_", "c", "o", "u", "n", "t">>

Letters == {"a", "b", "c", "e", "g", "i", "m", "n", "o", "p", "q", "r", "s", "t", "u"}
Digits == {"0", "1", "2", "3", "4", "5", "6", "7", "8", "9"}

\* A label map is a set of <<key, value>> pairs with distinct keys.
La == {<<"a", "x">>}
Lay == {<<"a", "y">>}
Lab == {<<"a", "x">>, <<"b", "x">>}
Lb == {<<"b", "x">>}
LabelMaps == {La, Lay, Lab, Lb}

ValueStrings == {"abc", "-1", "0.5", "1"}

\* The samples of the requests: every value on one label map, and every label
\* map with the value "1".
Items == [labels : {La}, value : ValueStrings] \cup [labels : LabelMaps, value : {"1"}]
NoItem == [labels |-> {}, value |-> ""]

\* someLabels, the label names of the built-in ping counter.
someLabels == {"path", "receiver", "webhook", "routing_key", "extra_slack_recipient",
               "extra_slack_recipient_sre", "instance", "arg1", "arg2"}

\* What the body of a request can be: a payload that is reduced to a list of
\* families (a JSON sequence, or text in the exposition format), JSON whose
\* top-level value is an object, and text that is not in the exposition format.
Bodies == {"list", "notseq", "nottext"}

\* The method and the Content-Type header of a request; "" is no header.
Methods == {"POST", "GET"}
ContentTypes ==
  {"", "application/json", "application/json; charset=utf-8",
   "application/x-www-form-urlencoded", "text/plain"}
\* The method is looked at first, so one header is enough for a GET.
Headers ==
  {h \in [method : Methods, contentType : ContentTypes] :
     h.method = "GET" => h.contentType = "application/json"}
NoHeader == [method |-> "", contentType |-> ""]

\* No sample, and no line.
NoSample == [name |-> "", labels |-> {}, value |-> ""]
NoLine == [name |-> "", braces |-> FALSE, pairs |-> <<>>, joined |-> <<>>, value |-> ""]
NoChild == [labels |-> {}, key |-> <<>>, listings |-> {}]
NoQuery == <<>>
NoMessage == [sent |-> FALSE, text |-> ""]
NoText == [families |-> <<>>, ok |-> TRUE]

(***************************************************************************)
(* Pure functions of the program.                                          *)
(***************************************************************************)
\* getKeys: the keys of a label map (sorted in the code; a set here).
getKeys(m) == {p[1] : p \in m}

\* strconv.ParseFloat(item.Value, 64): ok and the value in halves, or an error.
ParseFloat(s) ==
  CASE s = "1" -> [ok |-> TRUE, v |-> 2]
    [] s = "0.5" -> [ok |-> TRUE, v |-> 1]
    [] s = "-1" -> [ok |-> TRUE, v |-> -2]
    [] s = "1.0" -> [ok |-> TRUE, v |-> 2]
    [] s = "1.5" -> [ok |-> TRUE, v |-> 3]
    [] s = "0" -> [ok |-> TRUE, v |-> 0]
    [] s = "2" -> [ok |-> TRUE, v |-> 4]
    [] OTHER -> [ok |-> FALSE, v |-> 0]

\* fmt.Sprintf("%.0f", value): the whole number printed for a value given in
\* halves; a tie is rounded to the even neighbour.
FormatF0(h) ==
  IF h % 2 = 0 THEN h \div 2
  ELSE LET k == (h - 1) \div 2 IN IF k % 2 = 0 THEN k ELSE k + 1

\* The identifier grammar the collector applies to a metric name on
\* registration (NewCounterVec / Register).
ValidMetricName(n) ==
  LET cs == Chars(n) IN
    /\ Len(cs) > 0
    /\ cs[1] \in Letters \cup {"_", ":"}
    /\ \A i \in 2..Len(cs) : cs[i] \in Letters \cup Digits \cup {"_", ":"}

\* createMetricLine(name, labels, value): one exposition line.
createMetricLine(name, labels, value) ==
  [kind |-> "line", name |-> name, labels |-> labels, value |-> value]

\* The fixed text the create handler writes around the lines of a family.
CreatedText == [kind |-> "created metric...", name |-> "", labels |-> {}, value |-> 0]
BlankText == [kind |-> "", name |-> "", labels |-> {}, value |-> 0]

\* header.ParseValueAndParams(r.Header, "Content-Type"): the value without its
\* parameters.
ParseValueAndParams(contentType) ==
  IF contentType = "application/json; charset=utf-8" THEN "application/json" ELSE contentType

allowedTypes == {"application/x-www-form-urlencoded", "application/json"}

\* A gate that does not look at the method.
requestIsAllowedAnyMethod(h) ==
  IF h.contentType = "" THEN "400"
  ELSE IF ParseValueAndParams(h.contentType) \notin allowedTypes THEN "415"
  ELSE "ok"

\* requestIsAllowed(w, r): "ok", or the status of the error it answers with.
requestIsAllowed(h) ==
  IF h.method # "POST" THEN "405"
  ELSE IF h.contentType = "" THEN "400"
  ELSE IF ParseValueAndParams(h.contentType) \notin allowedTypes THEN "415"
  ELSE "ok"

\* http.Error(w, ...) of requestIsAllowed.
RefusedText(code) ==
  [kind |-> CASE code = "405" -> "Method not allowed"
              [] code = "400" -> "Content-Type header required"
              [] code = "415" -> "Invalid Content-Type",
   name |-> "", labels |-> {}, value |-> 0]

\* The bodies a content type can carry: text goes through parseInputToMetrics
\* and always comes out as a JSON sequence, a JSON body is decoded as it is.
BodiesOf(contentType) ==
  IF contentType = "application/x-www-form-urlencoded"
    THEN {"list", "nottext"} ELSE {"list", "notseq"}

\* http.Error(w, "Error decoding metrics: ...", http.StatusBadRequest).
ErrorText == [kind |-> "Error decoding metrics", name |-> "", labels |-> {}, value |-> 0]

(***************************************************************************)
(* State.                                                                  *)
(***************************************************************************)
VARIABLES
  metricsMapPrometheus, \* name -> label names (meta.Labels) of the families in the map
  registry,             \* name -> label names of the collectors registered in s.registry
  counters,             \* <<name, label map>> -> value (halves) of the live counters
  fatal,                \* the runtime stopped the process on a concurrent map access
  nfams,                \* families received so far, in all requests
  nitems,               \* samples received so far, in all families
  op,                   \* per task: "create" or "update"
  pc,                   \* per task: position in the handler
  nfam,                 \* per task: len(decodedMetricInfo)
  decoded,              \* per task: the names of the families of decodedMetricInfo
                        \* that the handler's loop has reached, the current one last
  more,                 \* per task: items of f.Metrics not yet reached by the loop
  firstKeys,            \* per task: <<keys of f.Metrics[0]>>, or <<>> before it is reached
  item,                 \* per task: the item being processed
  result,               \* per task: result, the lines of the current family
  w,                    \* per task: what the handler has written to the response
  status,               \* per task: outcome of the request
  incs,                 \* history, per task: the increments its request has made, each
                        \* with the counter, the amount and the counter's value after it
  body,                 \* per task: what the body of the request is
  hdr,                  \* per task: method and Content-Type of the request, until the
                        \* handler has read them
  scrape,               \* position of the scrape of /metrics.d
  pending,              \* the counters the scrape has collected and not yet written
  snap,                 \* <<name, label map>> -> value, what the scrape has written
  sample,               \* the sample sent for one line: name, label map, value text
  format,               \* the format it is sent in: "json" or "text"
  info,                 \* the MetricInfo item decoded from it: name, labels, Value
  ranged,               \* the order in which range delivered the labels to createMetricLine
  line,                 \* the line createMetricLine returned for it
  pingCounterPrometheus, \* label map -> value (whole units) of ping_request_count
  npings,               \* requests to /ping so far
  query,                \* the query parameters of the last request to /ping
  handler,              \* per task: position of metricsHandler in a request to /metrics
  helper,               \* per task: position of the goroutine running getMetrics
  messages,             \* per task: what getMetrics is sending on the channel messages
  path,                 \* per task: the path getMetrics took
  data,                 \* per task: what metricsHandler received
  sends,                \* per task: sends on messages that have completed
  reply,                \* per task: the responses metricsHandler has written
  textIn,               \* the text handed to parseInputToMetrics: its families in the
                        \* order of the text, and whether the text parser accepts it
  caller,               \* position of parseInputToMetrics
  parser,               \* position of the goroutine running prom2json.ParseReader
  unsent,               \* the families ParseReader has parsed and not yet sent
  delivered,            \* history: the families in the order ParseReader sent them
  mfChan,               \* the families in the buffer of the channel mfChan
  closes,               \* calls of close on mfChan
  done,                 \* the channel done is closed
  parsed,               \* result of parseInputToMetrics, in the order received
  listed,               \* the order in which the payload listed the label pairs of the sample
  child                 \* the counter the last line went to, kept while the samples have its
                        \* label map: the label map, the place in the vector, and how the
                        \* samples that went to it listed their pairs

\* The hand-off of /metrics.
handoff == <<handler, helper, messages, path, data, sends, reply>>

\* The decoding of a text payload.
parsing == <<textIn, caller, parser, unsent, delivered, mfChan, closes, done, parsed>>

\* The scrape and the single line, which the /create and /update handlers leave alone.
aside == <<scrape, pending, snap, sample, format, info, ranged, line, listed, child,
          pingCounterPrometheus, npings, query, handoff, parsing>>

vars == <<metricsMapPrometheus, registry, counters, fatal, nfams, nitems, op, pc, nfam, decoded,
          more, firstKeys, item, result, w, status, incs, body, hdr, aside>>

shared == <<metricsMapPrometheus, registry, counters>>

Init ==
  /\ metricsMapPrometheus = <<>>
  /\ registry = (PingName :> someLabels)
  /\ counters = <<>>
  /\ fatal = FALSE
  /\ nfams = 0
  /\ nitems = 0
  /\ op = [t \in Tasks |-> "create"]
  /\ pc = [t \in Tasks |-> "idle"]
  /\ decoded = [t \in Tasks |-> <<>>]
  /\ nfam = [t \in Tasks |-> 0]
  /\ more = [t \in Tasks |-> 0]
  /\ firstKeys = [t \in Tasks |-> <<>>]
  /\ item = [t \in Tasks |-> NoItem]
  /\ result = [t \in Tasks |-> <<>>]
  /\ w = [t \in Tasks |-> <<>>]
  /\ status = [t \in Tasks |-> "none"]
  /\ incs = [t \in Tasks |-> <<>>]
  /\ body = [t \in Tasks |-> "none"]
  /\ hdr = [t \in Tasks |-> NoHeader]
  /\ scrape = "idle"
  /\ pending = {}
  /\ snap = <<>>
  /\ sample = NoSample
  /\ format = "none"
  /\ info = NoSample
  /\ ranged = <<>>
  /\ line = NoLine
  /\ listed = <<>>
  /\ child = NoChild
  /\ pingCounterPrometheus = <<>>
  /\ npings = 0
  /\ query = NoQuery
  /\ handler = [t \in Tasks |-> "idle"]
  /\ helper = [t \in Tasks |-> "none"]
  /\ messages = [t \in Tasks |-> NoMessage]
  /\ path = [t \in Tasks |-> "none"]
  /\ data = [t \in Tasks |-> NoMessage]
  /\ sends = [t \in Tasks |-> 0]
  /\ reply = [t \in Tasks |-> <<>>]
  /\ textIn = NoText
  /\ caller = "idle"
  /\ parser = "none"
  /\ unsent = {}
  /\ delivered = <<>>
  /\ mfChan = <<>>
  /\ closes = 0
  /\ done = FALSE
  /\ parsed = <<>>


(***************************************************************************)
(* The collaborators: the collector registry and the counter vector.       *)
(***************************************************************************)
\* A registry that checks a new name for a collision only, not for its grammar.
RegisterOkAnyName(name) == name \notin DOMAIN registry

\* s.registry.Register(counter) for a new CounterVec of this name: it fails for
\* a name outside the identifier grammar and for a name already registered.
RegisterOk(name) == ValidMetricName(name) /\ name \notin DOMAIN registry

\* A GetMetricWith that asks for the label names of the vector and lets
\* further labels pass.
GetMetricWithSubset(labelNames, labels) == \A l \in labelNames : l \in getKeys(labels)

\* A GetMetricWith that compares the number of the labels only.
GetMetricWithCount(labelNames, labels) == Cardinality(labels) = Cardinality(labelNames)

\* metric.obj.GetMetricWith(labels): an error unless the label map has exactly
\* the label names of the vector.
GetMetricWithOk(labelNames, labels) ==
  /\ Cardinality(labels) = Cardinality(labelNames)
  /\ \A l \in labelNames : l \in getKeys(labels)

\* The value of a counter, 0 for a child that does not exist yet.
ValueOf(c, key) == IF key \in DOMAIN c THEN c[key] ELSE 0

\* A GetMetricWith that hands out a fresh child, at 0, on every call.
WithChildFresh(c, key) == [k \in DOMAIN c \cup {key} |-> IF k = key THEN 0 ELSE c[k]]

\* GetMetricWith creates the child of a label vector on first use, at 0.
WithChild(c, key) == IF key \in DOMAIN c THEN c ELSE c @@ (key :> 0)

\* A counter whose Add stores the value instead of adding it.
AddValueSet(cur, v) == v

\* counter.Add(value) / counter.Inc(): the new value of the counter.
AddValue(cur, v) == cur + v

Bump(c, key, v) == [WithChild(c, key) EXCEPT ![key] = AddValue(@, v)]

(***************************************************************************)
(* A request arrives at /create or /update and is decoded into             *)
(* decodedMetricInfo; every request is served by a goroutine of its own.   *)
(***************************************************************************)
\* A request is handed to createHandler or updateHandler, which begin alike.
Arrive(t) ==
  /\ ~fatal
  /\ UNCHANGED <<body, aside>>
  /\ pc[t] = "idle"
  /\ \E h \in Headers : hdr' = [hdr EXCEPT ![t] = h]
  /\ pc' = [pc EXCEPT ![t] = "gate"]
  /\ UNCHANGED <<shared, fatal, nfams, nitems, op, nfam, decoded, more, firstKeys, item,
                 result, w, status, incs>>

\* The handler up to its loop, in either of the two handlers: the gate, then
\* the body is read and decoded.
Start(t) ==
  /\ ~fatal
  /\ UNCHANGED aside
  /\ pc[t] = "gate"
  /\ hdr' = [hdr EXCEPT ![t] = NoHeader]
  /\ IF requestIsAllowed(hdr[t]) # "ok"
       THEN /\ pc' = [pc EXCEPT ![t] = "done"]
            /\ status' = [status EXCEPT ![t] = requestIsAllowed(hdr[t])]
            /\ w' = [w EXCEPT ![t] = <<RefusedText(requestIsAllowed(hdr[t]))>>]
            /\ UNCHANGED <<op, body, nfam, nfams>>
       ELSE \E o \in {"create", "update"},
               b \in BodiesOf(ParseValueAndParams(hdr[t].contentType)) :
              /\ op' = [op EXCEPT ![t] = o]
              /\ body' = [body EXCEPT ![t] = b]
              /\ IF b = "notseq"
                   THEN /\ pc' = [pc EXCEPT ![t] = "done"]
                        /\ status' = [status EXCEPT ![t] = "400"]
                        /\ w' = [w EXCEPT ![t] = <<ErrorText>>]
                        /\ UNCHANGED <<nfam, nfams>>
                   ELSE /\ \E n \in (IF b = "nottext" THEN {0} ELSE 0..(MaxFams - nfams)) :
                             /\ nfam' = [nfam EXCEPT ![t] = n]
                             /\ nfams' = nfams + n
                        /\ pc' = [pc EXCEPT ![t] = "handler"]
                        /\ UNCHANGED <<status, w>>
  /\ UNCHANGED <<shared, fatal, nitems, decoded, more, firstKeys, item, result, incs>>

\* The handler's loop over decodedMetricInfo has run out: the response is complete.
Finish(t) ==
  /\ ~fatal
  /\ UNCHANGED <<body, hdr, aside>>
  /\ pc[t] = "handler"
  /\ Len(decoded[t]) = nfam[t]
  /\ pc' = [pc EXCEPT ![t] = "done"]
  /\ status' = [status EXCEPT ![t] = "200"]
  /\ UNCHANGED <<shared, fatal, nfams, nitems, op, nfam, decoded, more, firstKeys, item,
                 result, w, incs>>

\* f.Name of the family being processed.
fname(t) == decoded[t][Len(decoded[t])]

\* The loop over decodedMetricInfo reaches the next family, which carries n
\* samples (len(f.Metrics)).
FamilySizes == 0..(MaxItems - nitems)

Receive(t, name, n) ==
  /\ decoded' = [decoded EXCEPT ![t] = Append(@, name)]
  /\ more' = [more EXCEPT ![t] = n]
  /\ nitems' = nitems + n

\* The loop over f.Metrics goes on to the next item (continue, or the end of
\* the loop body).
Continue(t) ==
  /\ pc' = [pc EXCEPT ![t] = IF op[t] = "create" THEN "loop" ELSE "uloop"]
  /\ more' = [more EXCEPT ![t] = @ - 1]
  /\ item' = [item EXCEPT ![t] = NoItem]

\* The keys of f.Metrics[0], kept from the first item on.
NoteFirst(t, it) ==
  firstKeys' = [firstKeys EXCEPT ![t] = IF @ = <<>> THEN <<getKeys(it.labels)>> ELSE @]

\* One more increment of the request of t.
Increment(key, amount, total) == [key |-> key, amount |-> amount, total |-> total]

(***************************************************************************)
(* createHandler / createNewMetric.                                        *)
(***************************************************************************)
\* createHandler calls createNewMetric for the next family of the request.
CreateFamily(t) ==
  /\ ~fatal
  /\ UNCHANGED <<body, hdr, aside>>
  /\ pc[t] = "handler" /\ op[t] = "create"
  /\ Len(decoded[t]) < nfam[t]
  /\ \E name \in Names, n \in FamilySizes : Receive(t, name, n)
  /\ pc' = [pc EXCEPT ![t] = "loop"]
  /\ UNCHANGED <<shared, fatal, nfams, op, nfam, firstKeys, item, result, w, status, incs>>

\* The loop reaches the next item: ParseFloat, getKeys and the test
\* metricsMapPrometheus[f.Name] == nil.
CreateItem(t) ==
  /\ ~fatal
  /\ UNCHANGED <<body, hdr, aside>>
  /\ pc[t] = "loop" /\ more[t] > 0
  /\ \E it \in Items :
       /\ NoteFirst(t, it)
       /\ IF ~ParseFloat(it.value).ok
            THEN Continue(t)
            ELSE /\ item' = [item EXCEPT ![t] = it]
                 /\ pc' = [pc EXCEPT ![t] =
                             IF fname(t) \in DOMAIN metricsMapPrometheus THEN "get" ELSE "register"]
                 /\ UNCHANGED more
  /\ UNCHANGED <<shared, fatal, nfams, nitems, op, nfam, decoded, result, w, status, incs>>

\* A createNewMetric that registers a new family with a registry made anew.
CreateRegisterAlone(t) ==
  /\ ~fatal
  /\ UNCHANGED <<body, hdr, aside>>
  /\ pc[t] = "register"
  /\ IF RegisterOk(fname(t))
       THEN /\ registry' = (fname(t) :> getKeys(item[t].labels))
            /\ pc' = [pc EXCEPT ![t] = "insert"]
            /\ UNCHANGED <<more, item>>
       ELSE /\ Continue(t)
            /\ UNCHANGED registry
  /\ UNCHANGED <<metricsMapPrometheus, counters, fatal, nfams, nitems, op, nfam, decoded,
                 firstKeys, result, w, status, incs>>

\* A createNewMetric that takes the label names of a new family from the
\* first item of the family instead of the item at hand.
CreateRegisterFirstKeys(t) ==
  /\ ~fatal
  /\ UNCHANGED <<body, hdr, aside>>
  /\ pc[t] = "register"
  /\ IF RegisterOk(fname(t))
       THEN /\ registry' = registry @@ (fname(t) :> firstKeys[t][1])
            /\ pc' = [pc EXCEPT ![t] = "insert"]
            /\ UNCHANGED <<more, item>>
       ELSE /\ Continue(t)
            /\ UNCHANGED registry
  /\ UNCHANGED <<metricsMapPrometheus, counters, fatal, nfams, nitems, op, nfam, decoded,
                 firstKeys, result, w, status, incs>>

\* A createNewMetric that goes on to the map after a Register that failed.
CreateRegisterUnchecked(t) ==
  /\ ~fatal
  /\ UNCHANGED <<body, hdr, aside>>
  /\ pc[t] = "register"
  /\ registry' = IF RegisterOk(fname(t))
                   THEN registry @@ (fname(t) :> getKeys(item[t].labels)) ELSE registry
  /\ pc' = [pc EXCEPT ![t] = "insert"]
  /\ UNCHANGED <<metricsMapPrometheus, counters, fatal, nfams, nitems, op, nfam, decoded,
                 more, item, firstKeys, result, w, status, incs>>

\* prometheus.NewCounterVec and s.registry.Register; an error drops the item.
CreateRegister(t) ==
  /\ ~fatal
  /\ UNCHANGED <<body, hdr, aside>>
  /\ pc[t] = "register"
  /\ IF RegisterOk(fname(t))
       THEN /\ registry' = registry @@ (fname(t) :> getKeys(item[t].labels))
            /\ pc' = [pc EXCEPT ![t] = "insert"]
            /\ UNCHANGED <<more, item>>
       ELSE /\ Continue(t)
            /\ UNCHANGED registry
  /\ UNCHANGED <<metricsMapPrometheus, counters, fatal, nfams, nitems, op, nfam, decoded,
                 firstKeys, result, w, status, incs>>

\* metricsMapPrometheus[f.Name] = &CustomMetricPrometheus{...}.
Insert(t) ==
  /\ ~fatal
  /\ UNCHANGED <<body, hdr, aside>>
  /\ pc[t] = "insert"
  /\ metricsMapPrometheus' =
       [n \in DOMAIN metricsMapPrometheus \cup {fname(t)} |->
          IF n = fname(t) THEN getKeys(item[t].labels) ELSE metricsMapPrometheus[n]]
  /\ pc' = [pc EXCEPT ![t] = "get"]
  /\ UNCHANGED <<registry, counters, fatal, nfams, nitems, op, nfam, decoded, more, firstKeys,
                 item, result, w, status, incs>>

\* A createNewMetric whose counter takes a negative value like any other.
CreateAddSigned(t) ==
  /\ ~fatal
  /\ UNCHANGED <<body, hdr, aside>>
  /\ pc[t] = "get"
  /\ LET key == <<fname(t), item[t].labels>>
         value == ParseFloat(item[t].value).v
     IN IF ~GetMetricWithOk(metricsMapPrometheus[fname(t)], item[t].labels)
          THEN /\ Continue(t)
               /\ UNCHANGED <<counters, result, w, status, incs>>
          ELSE /\ counters' = Bump(counters, key, value)
               /\ incs' = [incs EXCEPT ![t] =
                             Append(@, Increment(key, value, ValueOf(counters, key) + value))]
               /\ result' = [result EXCEPT ![t] =
                               Append(@, createMetricLine(fname(t), item[t].labels, FormatF0(value)))]
               /\ Continue(t)
               /\ UNCHANGED <<w, status>>
  /\ UNCHANGED <<metricsMapPrometheus, registry, fatal, nfams, nitems, op, nfam, decoded, firstKeys>>

\* metric := metricsMapPrometheus[f.Name]; GetMetricWith, whose error drops the
\* item; counter.Add(value), which panics on a negative value: the server
\* recovers the panic of a handler by closing the connection, and nothing of
\* the response reaches the caller; else the line of the response.
CreateAdd(t) ==
  /\ ~fatal
  /\ UNCHANGED <<body, hdr, aside>>
  /\ pc[t] = "get"
  /\ LET key == <<fname(t), item[t].labels>>
         value == ParseFloat(item[t].value).v
     IN IF ~GetMetricWithOk(metricsMapPrometheus[fname(t)], item[t].labels)
          THEN /\ Continue(t)
               /\ UNCHANGED <<counters, result, w, status, incs>>
          ELSE IF value < 0
            THEN /\ counters' = WithChild(counters, key)
                 /\ pc' = [pc EXCEPT ![t] = "panicked"]
                 /\ status' = [status EXCEPT ![t] = "aborted"]
                 /\ w' = [w EXCEPT ![t] = <<>>]
                 /\ UNCHANGED <<result, more, item, incs>>
            ELSE /\ counters' = Bump(counters, key, value)
                 /\ incs' = [incs EXCEPT ![t] =
                               Append(@, Increment(key, value, ValueOf(counters, key) + value))]
                 /\ result' = [result EXCEPT ![t] =
                                 Append(@, createMetricLine(fname(t), item[t].labels, FormatF0(value)))]
                 /\ Continue(t)
                 /\ UNCHANGED <<w, status>>
  /\ UNCHANGED <<metricsMapPrometheus, registry, fatal, nfams, nitems, op, nfam, decoded, firstKeys>>

\* createNewMetric returns; createHandler writes the family's part of the response.
CreateReturn(t) ==
  /\ ~fatal
  /\ UNCHANGED <<body, hdr, aside>>
  /\ pc[t] = "loop" /\ more[t] = 0
  /\ w' = [w EXCEPT ![t] = @ \o <<CreatedText>> \o result[t] \o <<BlankText>>]
  /\ result' = [result EXCEPT ![t] = <<>>]
  /\ firstKeys' = [firstKeys EXCEPT ![t] = <<>>]
  /\ pc' = [pc EXCEPT ![t] = "handler"]
  /\ UNCHANGED <<shared, fatal, nfams, nitems, op, nfam, decoded, more, item, status, incs>>

(***************************************************************************)
(* updateHandler / updateMetric.                                           *)
(***************************************************************************)
\* An updateMetric that enters an unknown name into the map (an upsert).
UpdateFamilyUpsert(t) ==
  /\ ~fatal
  /\ UNCHANGED <<body, hdr, aside>>
  /\ pc[t] = "handler" /\ op[t] = "update"
  /\ Len(decoded[t]) < nfam[t]
  /\ \E name \in Names :
       IF name \in DOMAIN metricsMapPrometheus
         THEN /\ \E n \in FamilySizes : Receive(t, name, n)
              /\ pc' = [pc EXCEPT ![t] = "uloop"]
              /\ UNCHANGED metricsMapPrometheus
         ELSE /\ Receive(t, name, 0)
              /\ metricsMapPrometheus' = metricsMapPrometheus @@ (name :> {})
              /\ UNCHANGED pc
  /\ UNCHANGED <<registry, counters, fatal, nfams, op, nfam, firstKeys, item, result, w,
                 status, incs>>

\* updateHandler calls updateMetric for the next family: the lookup
\* metricsMapPrometheus[f.Name].  An unknown name returns nil, and the handler
\* writes nothing for the family.
UpdateFamily(t) ==
  /\ ~fatal
  /\ UNCHANGED <<body, hdr, aside>>
  /\ pc[t] = "handler" /\ op[t] = "update"
  /\ Len(decoded[t]) < nfam[t]
  /\ \E name \in Names :
       IF name \in DOMAIN metricsMapPrometheus
         THEN /\ \E n \in FamilySizes : Receive(t, name, n)
              /\ pc' = [pc EXCEPT ![t] = "uloop"]
         ELSE /\ Receive(t, name, 0)
              /\ UNCHANGED pc
  /\ UNCHANGED <<shared, fatal, nfams, op, nfam, firstKeys, item, result, w, status, incs>>

\* The loop reaches the next item: GetMetricWith, whose error drops the item,
\* and counter.Inc().
UpdateInc(t) ==
  /\ ~fatal
  /\ UNCHANGED <<body, hdr, aside>>
  /\ pc[t] = "uloop" /\ more[t] > 0
  /\ \E it \in Items :
       LET key == <<fname(t), it.labels>> IN
         /\ NoteFirst(t, it)
         /\ IF ~GetMetricWithOk(metricsMapPrometheus[fname(t)], it.labels)
              THEN /\ Continue(t)
                   /\ UNCHANGED <<counters, incs>>
              ELSE /\ counters' = Bump(counters, key, 2)
                   /\ incs' = [incs EXCEPT ![t] =
                                 Append(@, Increment(key, 2, ValueOf(counters, key) + 2))]
                   /\ item' = [item EXCEPT ![t] = it]
                   /\ pc' = [pc EXCEPT ![t] = "uread"]
                   /\ UNCHANGED more
  /\ UNCHANGED <<metricsMapPrometheus, registry, fatal, nfams, nitems, op, nfam, decoded,
                 result, w, status>>

\* getMetricValue(counter) and the line of the response.
UpdateRead(t) ==
  /\ ~fatal
  /\ UNCHANGED <<body, hdr, aside>>
  /\ pc[t] = "uread"
  /\ LET value == counters[<<fname(t), item[t].labels>>] IN
       result' = [result EXCEPT ![t] =
                    Append(@, createMetricLine(fname(t), item[t].labels, FormatF0(value)))]
  /\ Continue(t)
  /\ UNCHANGED <<shared, fatal, nfams, nitems, op, nfam, decoded, firstKeys, w, status, incs>>

\* updateMetric returns; updateHandler writes the lines.
UpdateReturn(t) ==
  /\ ~fatal
  /\ UNCHANGED <<body, hdr, aside>>
  /\ pc[t] = "uloop" /\ more[t] = 0
  /\ w' = [w EXCEPT ![t] = @ \o result[t]]
  /\ result' = [result EXCEPT ![t] = <<>>]
  /\ firstKeys' = [firstKeys EXCEPT ![t] = <<>>]
  /\ pc' = [pc EXCEPT ![t] = "handler"]
  /\ UNCHANGED <<shared, fatal, nfams, nitems, op, nfam, decoded, more, item, status, incs>>

(***************************************************************************)
(* The map is a plain Go map used without a lock: when one task is about   *)
(* to assign to it and another task is about to read or assign, the two    *)
(* accesses are a data race, which the runtime may detect and answer by    *)
(* stopping the process ("fatal error: concurrent map read and map         *)
(* write"); when it does not, each access sees the map before or after the *)
(* other.                                                                  *)
(***************************************************************************)
AtMapRead(u) ==
  \/ pc[u] = "loop" /\ more[u] > 0
  \/ pc[u] = "get"
  \/ pc[u] = "handler" /\ Len(decoded[u]) < nfam[u] /\ op[u] = "update"

AtMapWrite(u) == pc[u] = "insert"

FatalRace(u) ==
  /\ ~fatal
  /\ UNCHANGED <<body, hdr, aside>>
  /\ AtMapRead(u) \/ AtMapWrite(u)
  /\ \E t \in Tasks \ {u} : AtMapWrite(t)
  /\ fatal' = TRUE
  /\ UNCHANGED <<shared, nfams, nitems, op, pc, nfam, decoded, more, firstKeys, item, result,
                 w, status, incs>>

Next ==
  \E t \in Tasks :
    \/ Arrive(t)
    \/ Start(t)
    \/ Finish(t)
    \/ CreateFamily(t)
    \/ CreateItem(t)
    \/ CreateRegister(t)
    \/ Insert(t)
    \/ CreateAdd(t)
    \/ CreateReturn(t)
    \/ UpdateFamily(t)
    \/ UpdateInc(t)
    \/ UpdateRead(t)
    \/ UpdateReturn(t)
    \/ FatalRace(t)

Spec == Init /\ [][Next]_vars

(***************************************************************************)
(* /ping: the built-in counter vector ping_request_count, next to the      *)
(* requests to /create and /update.                                        *)
(***************************************************************************)
MaxPings == 1      \* requests to /ping

\* someLabels in its order, the order of the values of WithLabelValues.
pingLabelNames ==
  <<"path", "receiver", "webhook", "routing_key", "extra_slack_recipient",
    "extra_slack_recipient_sre", "instance", "arg1", "arg2">>

\* The query parameters of a request to /ping, as r.URL.Query().Get returns
\* them: "" is a parameter not given.
PathValues == {"", "/p"}
Queries == {[n \in someLabels |-> IF n = "path" THEN v ELSE ""] : v \in PathValues}

\* A handler that sets no defaults.
pingParamsRaw(q) == q

\* params of pingHandler: the query parameters, with the defaults for path,
\* instance and receiver.
pingParams(q) ==
  [n \in someLabels |->
     IF q[n] # "" THEN q[n]
     ELSE CASE n = "path" -> "/tmp/kafka_upload"
            [] n = "instance" -> "pingpong"
            [] n = "receiver" -> "default-receiver-sre"
            [] OTHER -> ""]

\* The arguments of WithLabelValues in pingHandler, in their order.
pingValues(params) ==
  <<params["path"], params["receiver"], params["webhook"], params["routing_key"],
    params["extra_slack_recipient"], params["extra_slack_recipient_sre"],
    params["instance"], params["arg1"], params["arg2"]>>

\* pingCounterPrometheus.WithLabelValues(values...): the label map of the
\* child, the i-th value under the i-th label name of the vector.
WithLabelValues(values) == {<<pingLabelNames[i], values[i]>> : i \in DOMAIN pingLabelNames}

\* The rest of the state, which /ping leaves alone.
unpinged == <<shared, fatal, nfams, nitems, op, pc, nfam, decoded, more, firstKeys, item,
              result, w, status, incs, body, hdr, scrape, pending, snap, sample, format, info,
              ranged, line, listed, child, handoff, parsing>>

\* pingHandler: one Inc of the child of the label values; the child is
\* created at 0 on first use.
Ping ==
  /\ ~fatal
  /\ npings < MaxPings
  /\ \E q \in Queries :
       LET vec == WithLabelValues(pingValues(pingParams(q))) IN
         /\ query' = q
         /\ pingCounterPrometheus' =
              [k \in DOMAIN pingCounterPrometheus \cup {vec} |->
                 (IF k \in DOMAIN pingCounterPrometheus THEN pingCounterPrometheus[k] ELSE 0)
                 + (IF k = vec THEN 1 ELSE 0)]
  /\ npings' = npings + 1
  /\ UNCHANGED unpinged

NextPing == Next \/ Ping

SpecPing == Init /\ [][NextPing]_vars

(***************************************************************************)
(* /metrics: metricsHandler starts getMetrics in a goroutine and waits for *)
(* its message on an unbuffered channel; getMetrics fetches /metrics.d     *)
(* over HTTP.  Every request has a handler, a channel and a helper of its  *)
(* own.                                                                    *)
(***************************************************************************)
\* What /metrics.d can answer: an exposition, here one without and one with a
\* per cent sign in it.
ScrapeBodies == {"m 1", "m{a=\"50%\"} 1"}

Message(text) == [sent |-> TRUE, text |-> text]

\* fmt.Fprintf(w, data): data is the format, so a per cent sign in it is read
\* as the start of a verb.
Fprintf(fmtText) ==
  IF fmtText = "m{a=\"50%\"} 1" THEN "m{a=\"50%!\"(MISSING)} 1" ELSE fmtText

\* The rest of the state, which /metrics leaves alone.
unserved == <<shared, fatal, nfams, nitems, op, pc, nfam, decoded, more, firstKeys, item,
              result, w, status, incs, body, hdr, scrape, pending, snap, sample, format, info,
              ranged, line, listed, child, pingCounterPrometheus, npings, query, parsing>>

\* metricsHandler up to its receive: make(chan string), go s.getMetrics(messages).
MetricsHandler(t) ==
  /\ handler[t] = "idle"
  /\ handler' = [handler EXCEPT ![t] = "receive"]
  /\ helper' = [helper EXCEPT ![t] = "get"]
  /\ UNCHANGED <<unserved, messages, path, data, sends, reply>>

\* A getMetrics that returns from a failed fetch without a message.
HttpGetSilent(t) ==
  /\ helper[t] = "get"
  /\ \/ /\ helper' = [helper EXCEPT ![t] = "done"]
        /\ path' = [path EXCEPT ![t] = "fetch error"]
     \/ /\ helper' = [helper EXCEPT ![t] = "read"]
        /\ UNCHANGED path
  /\ UNCHANGED <<unserved, handler, messages, data, sends, reply>>

\* http.Get returns: with an error, and getMetrics goes to send "", or with a
\* response.
HttpGet(t) ==
  /\ helper[t] = "get"
  /\ \/ /\ helper' = [helper EXCEPT ![t] = "send"]
        /\ messages' = [messages EXCEPT ![t] = Message("")]
        /\ path' = [path EXCEPT ![t] = "fetch error"]
     \/ /\ helper' = [helper EXCEPT ![t] = "read"]
        /\ UNCHANGED <<messages, path>>
  /\ UNCHANGED <<unserved, handler, data, sends, reply>>

\* io.ReadAll returns: with an error, and getMetrics goes to send "", or with
\* the body, and it goes to send the body.
ReadAll(t) ==
  /\ helper[t] = "read"
  /\ \/ /\ messages' = [messages EXCEPT ![t] = Message("")]
        /\ path' = [path EXCEPT ![t] = "read error"]
     \/ /\ \E b \in ScrapeBodies : messages' = [messages EXCEPT ![t] = Message(b)]
        /\ path' = [path EXCEPT ![t] = "success"]
  /\ helper' = [helper EXCEPT ![t] = "send"]
  /\ UNCHANGED <<unserved, handler, data, sends, reply>>

\* c <- x meets data := <-messages: on the unbuffered channel the send and
\* the receive complete together; getMetrics returns.
HandOff(t) ==
  /\ helper[t] = "send"
  /\ handler[t] = "receive"
  /\ data' = [data EXCEPT ![t] = messages[t]]
  /\ messages' = [messages EXCEPT ![t] = NoMessage]
  /\ sends' = [sends EXCEPT ![t] = @ + 1]
  /\ helper' = [helper EXCEPT ![t] = "done"]
  /\ handler' = [handler EXCEPT ![t] = "write"]
  /\ UNCHANGED <<unserved, path, reply>>

\* fmt.Fprintf(w, data), and metricsHandler returns.
WriteData(t) ==
  /\ handler[t] = "write"
  /\ reply' = [reply EXCEPT ![t] = Append(@, Fprintf(data[t].text))]
  /\ handler' = [handler EXCEPT ![t] = "done"]
  /\ UNCHANGED <<unserved, helper, messages, path, data, sends>>

NextMetrics ==
  \E t \in Tasks :
    \/ MetricsHandler(t)
    \/ HttpGet(t)
    \/ ReadAll(t)
    \/ HandOff(t)
    \/ WriteData(t)

\* Every goroutine that can take a step is scheduled in the end, and http.Get
\* and io.ReadAll return in the end.
SpecMetrics ==
  /\ Init /\ [][NextMetrics]_vars
  /\ \A t \in Tasks :
       /\ WF_vars(HttpGet(t))
       /\ WF_vars(ReadAll(t))
       /\ WF_vars(HandOff(t))
       /\ WF_vars(WriteData(t))

(***************************************************************************)
(* parseInputToMetrics: a goroutine runs prom2json.ParseReader, which      *)
(* parses the whole text, sends the families it found on mfChan in the     *)
(* order of a map iteration, and closes mfChan when it returns, with or    *)
(* without an error; the goroutine then closes done.  The caller ranges    *)
(* over mfChan until it is closed and empty, and then waits for done.      *)
(***************************************************************************)
MaxParsed == 3     \* families of a text
ChanCap == 2       \* buffer of mfChan, 1024 in the program

FamilyNames == {"f", "g", "h"}

\* The texts: their families, each family once, in the order of the text, and
\* whether the text parser accepts the text.
Texts ==
  {x \in [families : UNION {[1..n -> FamilyNames] : n \in 0..MaxParsed}, ok : BOOLEAN] :
     \A i, j \in DOMAIN x.families : x.families[i] = x.families[j] => i = j}

\* The rest of the state, which the decoding of a text leaves alone.
unparsed == <<shared, fatal, nfams, nitems, op, pc, nfam, decoded, more, firstKeys, item,
              result, w, status, incs, body, hdr, scrape, pending, snap, sample, format, info,
              ranged, line, listed, child, pingCounterPrometheus, npings, query, handoff>>

\* parseInputToMetrics is called: it makes mfChan and done and starts the goroutine.
ParseCall ==
  /\ caller = "idle"
  /\ textIn' \in Texts
  /\ caller' = "range"
  /\ parser' = "parse"
  /\ UNCHANGED <<unparsed, unsent, delivered, mfChan, closes, done, parsed>>

\* ParseReader: parser.TextToMetricFamilies(in); with an error it returns at
\* once, without a family sent.
ParseText ==
  /\ parser = "parse"
  /\ IF textIn.ok
       THEN /\ unsent' = {textIn.families[i] : i \in DOMAIN textIn.families}
            /\ parser' = "send"
       ELSE /\ parser' = "close"
            /\ UNCHANGED unsent
  /\ UNCHANGED <<unparsed, textIn, caller, delivered, mfChan, closes, done, parsed>>

\* ParseReader: for _, mf := range metricFamilies { ch <- mf }: the next family
\* of the map, whichever it is, once the buffer has room.
SendFamily ==
  /\ parser = "send"
  /\ Len(mfChan) < ChanCap
  /\ \E mf \in unsent :
       /\ mfChan' = Append(mfChan, mf)
       /\ delivered' = Append(delivered, mf)
       /\ unsent' = unsent \ {mf}
  /\ UNCHANGED <<unparsed, textIn, caller, parser, closes, done, parsed>>

\* ParseReader has sent every family and returns.
SendEnd ==
  /\ parser = "send" /\ unsent = {}
  /\ parser' = "close"
  /\ UNCHANGED <<unparsed, textIn, caller, unsent, delivered, mfChan, closes, done, parsed>>

\* ParseReader's deferred close(ch).
CloseChan ==
  /\ parser = "close"
  /\ closes' = closes + 1
  /\ parser' = "signal"
  /\ UNCHANGED <<unparsed, textIn, caller, unsent, delivered, mfChan, done, parsed>>

\* A goroutine that closes mfChan itself after ParseReader has returned.
CloseDoneAndChan ==
  /\ parser = "signal"
  /\ closes' = closes + 1
  /\ done' = TRUE
  /\ parser' = "end"
  /\ UNCHANGED <<unparsed, textIn, caller, unsent, delivered, mfChan, parsed>>

\* The goroutine's deferred close(done).
CloseDone ==
  /\ parser = "signal"
  /\ done' = TRUE
  /\ parser' = "end"
  /\ UNCHANGED <<unparsed, textIn, caller, unsent, delivered, mfChan, closes, parsed>>

\* for mf := range mfChan: the next family of the buffer is appended to result.
RangeNext ==
  /\ caller = "range"
  /\ mfChan # <<>>
  /\ parsed' = Append(parsed, Head(mfChan))
  /\ mfChan' = Tail(mfChan)
  /\ UNCHANGED <<unparsed, textIn, caller, parser, unsent, delivered, closes, done>>

\* The range ends when mfChan is closed and empty.
RangeEnd ==
  /\ caller = "range"
  /\ mfChan = <<>> /\ closes > 0
  /\ caller' = "wait"
  /\ UNCHANGED <<unparsed, textIn, parser, unsent, delivered, mfChan, closes, done, parsed>>

\* <-done, json.Marshal(result) and the return.
ParseReturn ==
  /\ caller = "wait"
  /\ done
  /\ caller' = "returned"
  /\ UNCHANGED <<unparsed, textIn, parser, unsent, delivered, mfChan, closes, done, parsed>>

NextParse ==
  \/ ParseCall \/ ParseText \/ SendFamily \/ SendEnd \/ CloseChan \/ CloseDone
  \/ RangeNext \/ RangeEnd \/ ParseReturn

\* Both goroutines are scheduled in the end whenever they can take a step.
SpecParse ==
  /\ Init /\ [][NextParse]_vars
  /\ WF_vars(ParseText) /\ WF_vars(SendFamily) /\ WF_vars(SendEnd) /\ WF_vars(CloseChan)
  /\ WF_vars(CloseDone) /\ WF_vars(RangeNext) /\ WF_vars(RangeEnd) /\ WF_vars(ParseReturn)

(***************************************************************************)
(* The scrape of /metrics.d: promhttp gathers from s.registry.  Every      *)
(* registered counter vector hands over its children under its own lock,   *)
(* and the value of each child is read, atomically, when it is written to  *)
(* the output, one child after the other, while the handlers go on.  The   *)
(* scrape does not use metricsMapPrometheus.                               *)
(***************************************************************************)
\* The handler part of the state and the single line, which the scrape leaves alone.
unscraped == <<shared, fatal, nfams, nitems, op, pc, nfam, decoded, more, firstKeys, item,
               result, w, status, incs, body, hdr, sample, format, info, ranged, line, listed,
               child, pingCounterPrometheus, npings, query, handoff, parsing>>

\* The children a gather collects: those of the collectors that are registered.
Collected == {key \in DOMAIN counters : key[1] \in DOMAIN registry}

\* The value written for a child: the value of the counter at this moment.
Written(key) == ValueOf(counters, key)

ScrapeStart ==
  /\ ~fatal
  /\ scrape = "idle"
  /\ scrape' = "gather"
  /\ UNCHANGED <<unscraped, pending, snap>>

ScrapeCollect ==
  /\ ~fatal
  /\ scrape = "gather"
  /\ pending' = Collected
  /\ scrape' = "write"
  /\ UNCHANGED <<unscraped, snap>>

ScrapeWrite ==
  /\ ~fatal
  /\ scrape = "write"
  /\ \E key \in pending :
       /\ snap' = snap @@ (key :> Written(key))
       /\ pending' = pending \ {key}
  /\ UNCHANGED <<unscraped, scrape>>

ScrapeDone ==
  /\ ~fatal
  /\ scrape = "write" /\ pending = {}
  /\ scrape' = "done"
  /\ UNCHANGED <<unscraped, pending, snap>>

NextSnap ==
  \/ \E t \in Tasks :
       \/ Arrive(t)
       \/ Start(t)
       \/ Finish(t)
       \/ CreateFamily(t)
       \/ CreateItem(t)
       \/ CreateRegister(t)
       \/ Insert(t)
       \/ CreateAdd(t)
       \/ CreateReturn(t)
       \/ UpdateFamily(t)
       \/ UpdateInc(t)
       \/ UpdateRead(t)
       \/ UpdateReturn(t)
       \/ FatalRace(t)
  \/ ScrapeStart
  \/ ScrapeCollect
  \/ ScrapeWrite
  \/ ScrapeDone

SpecSnap == Init /\ [][NextSnap]_vars

(***************************************************************************)
(* One sample on its way from the payload to its confirmation line: the    *)
(* decoding of the two formats and createMetricLine, with the text of the  *)
(* line kept character by character where the order of the bytes matters.  *)
(***************************************************************************)
MaxLabels == 2     \* labels of the sample

LineKeys == {"a", "a1", "a_b", "b"}
LineValues == {"x", "y"}

\* The label maps of the sample: distinct keys.
LineLabels ==
  {S \in SUBSET (LineKeys \X LineValues) :
     /\ Cardinality(S) <= MaxLabels
     /\ \A p, q \in S : p[1] = q[1] => p = q}

\* The value as the payload writes it.
TextValues == {"1", "1.0", "0.5", "1.5", "-1"}

Samples == [name : {"m"}, labels : LineLabels, value : TextValues]

\* The characters of the keys and values, and their bytes.
KeyChars(k) ==
  CASE k = "a" -> <<"a">>
    [] k = "a1" -> <<"a", "1">>
    [] k = "a_b" -> <<"a", "_", "b">>
    [] k = "b" -> <<"b">>

Code(c) ==
  CASE c = "\"" -> 34 [] c = "," -> 44 [] c = "1" -> 49 [] c = "=" -> 61
    [] c = "_" -> 95 [] c = "a" -> 97 [] c = "b" -> 98 [] c = "x" -> 120 [] c = "y" -> 121

\* fmt.Sprintf("%s=%q", k, v).
PairText(p) == KeyChars(p[1]) \o <<"=", "\"", p[2], "\"">>

\* x < y for two Go strings: byte by byte, a proper prefix first.
StringLess(x, y) ==
  \E i \in 1..(Len(x) + 1) :
    /\ \A j \in 1..(i - 1) : j <= Len(y) /\ x[j] = y[j]
    /\ i <= Len(y)
    /\ i <= Len(x) => Code(x[i]) < Code(y[i])

\* sort.Strings(pairs), as an insertion sort.
RECURSIVE InsertString(_, _)
InsertString(x, seq) ==
  IF seq = <<>> THEN <<x>>
  ELSE IF StringLess(x, Head(seq)) THEN <<x>> \o seq
  ELSE <<Head(seq)>> \o InsertString(x, Tail(seq))

\* A sort that leaves the strings as they came.
sortStringsNot(seq) == seq

RECURSIVE sortStrings(_)
sortStrings(seq) == IF seq = <<>> THEN <<>> ELSE InsertString(Head(seq), sortStrings(Tail(seq)))

\* strings.Join(pairs, ",").
RECURSIVE Join(_)
Join(seq) ==
  IF seq = <<>> THEN <<>>
  ELSE IF Len(seq) = 1 THEN seq[1]
  ELSE seq[1] \o <<",">> \o Join(Tail(seq))

\* The orders in which `range labels` can deliver a label map.
Orders(labels) ==
  {o \in [1..Cardinality(labels) -> labels] : \A i, j \in DOMAIN o : o[i] = o[j] => i = j}

\* createMetricLine(name, labels, value) with the labels ranged in this order:
\* the text name{pairs} value, the braces written whatever the labels are.
MetricExpo(name, order, value) ==
  LET pairs == sortStrings([i \in DOMAIN order |-> PairText(order[i])]) IN
    [name |-> name, braces |-> TRUE, pairs |-> pairs, joined |-> Join(pairs), value |-> value]

\* getKeys(item.Labels) with the labels ranged in this order: the keys, sorted.
sortedKeys(order) == sortStrings([i \in DOMAIN order |-> KeyChars(order[i][1])])

\* A vector that finds the child by the values in the order the payload listed them.
hashLabelsListed(labelNames, labels) == [i \in DOMAIN listed |-> listed[i][2]]

\* metric.obj.GetMetricWith(labels): the child of a label map is found by the
\* values of the labels, taken in the order of the label names of the vector.
hashLabels(labelNames, labels) ==
  [i \in DOMAIN labelNames |-> (CHOOSE p \in labels : KeyChars(p[1]) = labelNames[i])[2]]

\* fmt.Sprintf("%.0f", value), as text.
F0Text(h) == ToString(FormatF0(h))

\* A prom2json that prints whole numbers.
SprintWhole(h) == F0Text(h)

\* prom2json prints the value of a sample with fmt.Sprint; the value in halves.
Sprint(h) ==
  CASE h = 2 -> "1" [] h = 1 -> "0.5" [] h = 3 -> "1.5" [] h = -2 -> "-1" [] h = 0 -> "0"
    [] h = 4 -> "2"

\* json Decode of a family into MetricInfo: the fields as sent.
jsonDecode(s) == [name |-> s.name, labels |-> s.labels, value |-> s.value]

\* parseInputToMetrics and the json Decode after it: the text parser reads the
\* value as a float, prom2json.NewFamily prints it again.
parseInputToMetrics(s) ==
  [name |-> s.name, labels |-> s.labels, value |-> Sprint(ParseFloat(s.value).v)]

\* The request part of the state, which the single line leaves alone.
served == <<shared, fatal, nfams, nitems, op, pc, nfam, decoded, more, firstKeys, item, result,
            w, status, incs, body, hdr, scrape, pending, snap, pingCounterPrometheus, npings,
            query, handoff, parsing>>

DecodeJSON ==
  /\ \E s \in Samples :
       /\ sample' = s
       /\ info' = jsonDecode(s)
       /\ listed' \in Orders(s.labels)
       /\ child' = IF s.labels = child.labels THEN child ELSE NoChild
  /\ format' = "json"
  /\ ranged' = <<>> /\ line' = NoLine
  /\ UNCHANGED served

DecodeText ==
  /\ \E s \in Samples :
       /\ sample' = s
       /\ info' = parseInputToMetrics(s)
       /\ listed' \in Orders(s.labels)
       /\ child' = IF s.labels = child.labels THEN child ELSE NoChild
  /\ format' = "text"
  /\ ranged' = <<>> /\ line' = NoLine
  /\ UNCHANGED served

\* createNewMetric on the decoded sample, for a name not seen before: the
\* line of the response, unless counter.Add panics on a negative value.
Line ==
  /\ format # "none"
  /\ ParseFloat(info.value).ok /\ ParseFloat(info.value).v >= 0
  /\ \E o \in Orders(info.labels) :
       /\ ranged' = o
       /\ line' = MetricExpo(info.name, o, F0Text(ParseFloat(info.value).v))
       /\ LET key == hashLabels(sortedKeys(o), info.labels) IN
            child' = [labels |-> info.labels, key |-> key,
                      listings |-> IF child.labels = info.labels /\ child.key = key
                                     THEN child.listings \cup {listed} ELSE {listed}]
  /\ UNCHANGED <<served, sample, format, info, listed>>

NextLine == DecodeJSON \/ DecodeText \/ Line

SpecLine == Init /\ [][NextLine]_vars

(***************************************************************************)
(* Definitions used to state the properties.                               *)
(***************************************************************************)
\* The exposition lines among what was written.
Lines(seq) == SelectSeq(seq, LAMBDA e : e.kind = "line")

\* The lines the request of t has produced so far, written or not yet.
Produced(t) == Lines(w[t]) \o result[t]

\* The increments of all requests, task after task.
RECURSIVE IncsUpTo(_)
IncsUpTo(n) == IF n = 0 THEN <<>> ELSE IncsUpTo(n - 1) \o incs[n]

AllIncs == IncsUpTo(NTasks)

OnKey(seq, key) == SelectSeq(seq, LAMBDA e : e.key = key)

RECURSIVE SumAmounts(_)
SumAmounts(seq) == IF seq = <<>> THEN 0 ELSE Head(seq).amount + SumAmounts(Tail(seq))

\* The names whose registration can succeed.
Registrable(n) == ValidMetricName(n) /\ n # PingName

InFlight(t) == pc[t] \notin {"idle", "done", "panicked"}

mLa == <<"m", La>>

(***************************************************************************)
(* C1: Create is additive and Update is a unit increment: the value of a   *)
(* counter is the sum of the values of the Create samples accepted on its  *)
(* label vector plus one for every Update sample accepted on it, whatever  *)
(* value the Update sample carries (2 halves stand for 1).                 *)
(***************************************************************************)
C1_AdditiveCreateUnitUpdate ==
  /\ \A key \in DOMAIN counters : counters[key] = SumAmounts(OnKey(AllIncs, key))
  /\ \A t \in Tasks : \A i \in 1..Len(incs[t]) :
       /\ incs[t][i].key \in DOMAIN counters
       /\ op[t] = "update" => incs[t][i].amount = 2

\* Create "1" and Create "0.5" in one request, then an Update carrying "-1":
\* 1 + 0.5 + 1 = 2.5.
C1_Witness ==
  /\ mLa \in DOMAIN counters /\ counters[mLa] = 5
  /\ \E t, u \in Tasks :
       /\ op[t] = "create" /\ Len(incs[t]) = 2
       /\ op[u] = "update" /\ Len(incs[u]) = 1 /\ item[u].value = "-1"

(***************************************************************************)
(* C2: no lost updates under concurrency: when the requests in flight at   *)
(* the same time have each had samples of one amount accepted on one label *)
(* vector, the counter holds that amount times the number of the samples.  *)
(***************************************************************************)
C2_NoLostUpdates ==
  \A key \in DOMAIN counters : \A a \in {1, 2} :
    LET on == OnKey(AllIncs, key) IN
      (\A i \in 1..Len(on) : on[i].amount = a) => counters[key] = a * Len(on)

\* Two requests, both still in flight, have each incremented the same counter.
C2_Witness ==
  \E t, u \in Tasks :
    /\ t # u /\ InFlight(t) /\ InFlight(u)
    /\ OnKey(incs[t], mLa) # <<>> /\ OnKey(incs[u], mLa) # <<>>
    /\ counters[mLa] = 4

(***************************************************************************)
(* C3: first-time creation of a family is atomic: between the test that    *)
(* finds the name unseen and the insertion into the map no other task is   *)
(* inside the same section for that name, the name stays unseen, and the   *)
(* registration the task attempts succeeds, so that its sample is counted. *)
(***************************************************************************)
C3_FirstCreateAtomic ==
  \A t \in Tasks :
    (pc[t] \in {"register", "insert"} /\ Registrable(fname(t))) =>
      /\ fname(t) \notin DOMAIN metricsMapPrometheus
      /\ pc[t] = "register" => RegisterOk(fname(t))
      /\ \A u \in Tasks \ {t} :
           ~(pc[u] \in {"register", "insert"} /\ fname(u) = fname(t))

(***************************************************************************)
(* C4: schema consistency: a Create or Update sample whose label-name set  *)
(* differs from the label set of its existing family is rejected, and the  *)
(* rejection leaves the map, the registry and every counter as they were   *)
(* and adds no line; an Update sample that is counted has exactly the      *)
(* label names of its family.                                              *)
(***************************************************************************)
C4_MismatchedLabelsRejected ==
  [][\A t \in Tasks :
       /\ ( /\ pc[t] = "get" /\ pc'[t] # "get"
            /\ getKeys(item[t].labels) # metricsMapPrometheus[fname(t)] ) =>
              /\ shared' = shared
              /\ result'[t] = result[t] /\ incs'[t] = incs[t]
              /\ pc'[t] = "loop"
       /\ (pc[t] = "uloop" /\ incs'[t] # incs[t]) =>
              getKeys(item'[t].labels) = metricsMapPrometheus[fname(t)]
       /\ (pc[t] = "uloop" /\ more'[t] # more[t]) =>
              /\ shared' = shared
              /\ result'[t] = result[t] /\ incs'[t] = incs[t]
    ]_vars

\* One request creates m with the labels {a}, then brings a second family m
\* whose only sample has the labels {b}: the sample is gone, m{a} stands at 1
\* and no child for {b} exists.
C4_Witness ==
  \E t \in Tasks :
    /\ op[t] = "create" /\ pc[t] = "loop" /\ more[t] = 0
    /\ decoded[t] = <<"m", "m">>
    /\ firstKeys[t] = <<{"b"}>>
    /\ Len(Lines(w[t])) = 1 /\ result[t] = <<>> /\ Len(incs[t]) = 1
    /\ metricsMapPrometheus["m"] = {"a"}
    /\ DOMAIN counters = {mLa} /\ counters[mLa] = 2

(***************************************************************************)
(* C5: Update never registers: no step of an Update request changes the    *)
(* map or the registry, and a family whose name is unknown changes no      *)
(* counter and writes nothing, so that the name is unknown afterwards too. *)
(***************************************************************************)
C5_UpdateNeverRegisters ==
  [][\A t \in Tasks :
       ( /\ op[t] = "update" /\ pc[t] # "idle"
         /\ <<pc[t], decoded[t], more[t]>> # <<pc'[t], decoded'[t], more'[t]>> ) =>
           /\ metricsMapPrometheus' = metricsMapPrometheus
           /\ registry' = registry
           /\ ( /\ Len(decoded'[t]) > Len(decoded[t])
                /\ decoded'[t][Len(decoded'[t])] \notin DOMAIN metricsMapPrometheus ) =>
                  /\ counters' = counters
                  /\ w'[t] = w[t] /\ result'[t] = <<>> /\ incs'[t] = incs[t]
                  /\ pc'[t] = "handler"
    ]_vars

\* An Update request with two families of the unknown name m has completed:
\* the name is still unknown, and nothing was written.
C5_Witness ==
  \E t \in Tasks :
    /\ op[t] = "update" /\ pc[t] = "done"
    /\ decoded[t] = <<"m", "m">>
    /\ "m" \notin DOMAIN metricsMapPrometheus /\ "m" \notin DOMAIN registry
    /\ w[t] = <<>> /\ counters = <<>>

(***************************************************************************)
(* C6 as stated: when Create registers a previously-unseen name, the label *)
(* set of the new family is the key set of the first sample listed for the *)
(* family, also when that sample is not recordable itself.                 *)
(***************************************************************************)
C6_FirstListedSampleFixesSchema ==
  \A t \in Tasks :
    pc[t] = "insert" =>
      /\ firstKeys[t] = <<getKeys(item[t].labels)>>
      /\ registry[fname(t)] = firstKeys[t][1]

(***************************************************************************)
(* C6 amended: when Create registers a previously-unseen name, the label   *)
(* set of the new family is the key set of the sample that is registering  *)
(* it, the first sample of the family whose value parses and whose         *)
(* registration succeeds; nothing of the family was recorded by the        *)
(* request before it, and every sample recorded has the label set of its   *)
(* family.                                                                 *)
(***************************************************************************)
C6_FirstRecordableSampleFixesSchema ==
  \A t \in Tasks :
    /\ pc[t] = "insert" =>
         /\ registry[fname(t)] = getKeys(item[t].labels)
         /\ ParseFloat(item[t].value).ok
         /\ result[t] = <<>>
    /\ \A i \in 1..Len(result[t]) :
         /\ result[t][i].name \in DOMAIN metricsMapPrometheus
         /\ getKeys(result[t][i].labels) = metricsMapPrometheus[result[t][i].name]
         /\ getKeys(result[t][i].labels) = registry[result[t][i].name]

\* The first sample listed had the labels {a} and a value that does not
\* parse; the family was registered by a later sample with the labels {a, b},
\* which is recorded.
C6_Witness ==
  \E t \in Tasks :
    /\ op[t] = "create" /\ pc[t] = "loop"
    /\ firstKeys[t] = <<{"a"}>>
    /\ Len(result[t]) = 1 /\ result[t][1].labels = Lab
    /\ metricsMapPrometheus[fname(t)] = {"a", "b"}
    /\ incs[t] = <<Increment(<<fname(t), Lab>>, 2, 2)>>

C8_SampleFailureNeverAbortsBatch ==
  \A t \in Tasks :
    pc[t] = "panicked" =>
      /\ more[t] = 1 /\ Len(decoded[t]) = nfam[t]
      /\ incs[t] = <<>>

(***************************************************************************)
(* C9: the response never over-claims: in a completed request, the lines   *)
(* written correspond one to one to the increments the request has made,   *)
(* the value on a Create line is the amount added (2 halves are 1), and a  *)
(* response that says "created metric..." has recorded something.          *)
(***************************************************************************)
C9_ResponseNeverOverClaims ==
  \A t \in Tasks :
    status[t] = "200" =>
      LET written == Lines(w[t]) IN
        /\ Len(written) = Len(incs[t])
        /\ \A i \in 1..Len(written) :
             /\ <<written[i].name, written[i].labels>> = incs[t][i].key
             /\ op[t] = "create" => 2 * written[i].value = incs[t][i].amount
        /\ (\E i \in 1..Len(w[t]) : w[t][i] = CreatedText) => incs[t] # <<>>

(***************************************************************************)
(* C10: Update reports its own post-increment total: the value on the line *)
(* of an accepted Update sample is the value the counter had right after   *)
(* the increment of this very sample, as the line format prints it,        *)
(* whatever other requests do to the counter in the meantime.              *)
(***************************************************************************)
C10_UpdateReportsOwnTotal ==
  \A t \in Tasks :
    op[t] = "update" =>
      \A i \in 1..Len(Produced(t)) : Produced(t)[i].value = FormatF0(incs[t][i].total)

(***************************************************************************)
(* C11: an unparseable payload is rejected as a whole: a request whose     *)
(* body is JSON that is no sequence, or text that is not in the exposition *)
(* format, ends with an error outcome, not with a success response, and    *)
(* has incremented nothing.                                                *)
(***************************************************************************)
C11_UnparseablePayloadRejected ==
  \A t \in Tasks :
    body[t] \in {"notseq", "nottext"} =>
      /\ status[t] # "200"
      /\ incs[t] = <<>> /\ decoded[t] = <<>>

(***************************************************************************)
(* C12: a JSON batch in which an object has no name is rejected as a       *)
(* whole: the request does not end in success, and no family of the batch  *)
(* is registered or incremented by it.  (A JSON object without `name`      *)
(* decodes to a family whose Name is the empty string.)                    *)
(***************************************************************************)
C12_MissingNameRejectsBatch ==
  \A t \in Tasks :
    (\E i \in 1..Len(decoded[t]) : decoded[t][i] = "") =>
      /\ status[t] # "200"
      /\ incs[t] = <<>>
      /\ Produced(t) = <<>>

\* The label key of a pair text: what stands before the first "=".
KeyOf(pt) ==
  LET i == CHOOSE i \in 1..Len(pt) : pt[i] = "=" /\ \A j \in 1..(i - 1) : pt[j] # "="
  IN SubSeq(pt, 1, i - 1)

Commas(text) == Cardinality({i \in 1..Len(text) : text[i] = ","})

(***************************************************************************)
(* C13: the label pairs of an encoded line are in strictly ascending       *)
(* lexicographic order of their keys, also when one key is a prefix of     *)
(* another, separated by commas and with no trailing comma.                *)
(***************************************************************************)
C13_PairsAscendingByKey ==
  line # NoLine =>
    /\ \A i, j \in 1..Len(line.pairs) :
         i < j => StringLess(KeyOf(line.pairs[i]), KeyOf(line.pairs[j]))
    /\ line.pairs # <<>> =>
         /\ line.joined[Len(line.joined)] # ","
         /\ Commas(line.joined) = Len(line.pairs) - 1

(***************************************************************************)
(* C14: for a sample with an empty label set the encoder leaves the braces *)
(* out: the line has the form `name value`.                                *)
(***************************************************************************)
C14_NoBracesWithoutLabels ==
  (line # NoLine /\ info.labels = {}) => ~line.braces

(***************************************************************************)
(* C15: round trip of the text format through Create: the confirmation     *)
(* line of a sample sent as exposition text for a fresh name has the name, *)
(* the label pairs and the numeric value of the sample, whole or not.      *)
(***************************************************************************)
C15_TextRoundTrip ==
  (format = "text" /\ line # NoLine) =>
    /\ line.name = sample.name
    /\ {line.pairs[i] : i \in 1..Len(line.pairs)} = {PairText(p) : p \in sample.labels}
    /\ Len(line.pairs) = Cardinality(sample.labels)
    /\ ParseFloat(line.value) = ParseFloat(sample.value)

(***************************************************************************)
(* C16: serialization is deterministic: the line of a name, a label map    *)
(* and a value is the same whatever the order in which the label pairs are *)
(* delivered, so that encoding the same sample again gives the same bytes. *)
(***************************************************************************)
C16_DeterministicLine ==
  line # NoLine =>
    \A o \in Orders(info.labels) : MetricExpo(info.name, o, line.value) = line

\* A line of two labels that were delivered in the order opposite to the one
\* they are written in.
C16_Witness ==
  /\ line # NoLine /\ Len(ranged) = 2
  /\ line.pairs = <<PairText(ranged[2]), PairText(ranged[1])>>

FullyRegistered(key) ==
  /\ key[1] \in DOMAIN registry /\ key[1] \in DOMAIN metricsMapPrometheus
  /\ registry[key[1]] = getKeys(key[2])
  /\ metricsMapPrometheus[key[1]] = getKeys(key[2])

(***************************************************************************)
(* C18: snapshot consistency under concurrent writers: a scrape taken      *)
(* while Create and Update are in flight lists samples of fully registered *)
(* families only, every value it writes is the value the counter holds at  *)
(* the moment it is written, and the writers never leave a scrape that is  *)
(* in flight unable to complete.                                           *)
(***************************************************************************)
C18_SnapshotConsistent ==
  [][ /\ \A key \in pending' \cup DOMAIN snap' : FullyRegistered(key)'
      /\ \A key \in DOMAIN snap' \ DOMAIN snap : snap'[key] = counters[key]
      /\ scrape' \in {"gather", "write"} => ~fatal'
    ]_vars

(***************************************************************************)
(* C19: monotonic registry growth with a fixed schema: no step of a        *)
(* Create, an Update or a scrape removes a registered family or a label    *)
(* vector, or changes the label set a family was created with, in the      *)
(* registry or in the map.                                                 *)
(***************************************************************************)
C19_RegistryOnlyGrows ==
  [][ /\ \A n \in DOMAIN registry : n \in DOMAIN registry' /\ registry'[n] = registry[n]
      /\ \A n \in DOMAIN metricsMapPrometheus :
           n \in DOMAIN metricsMapPrometheus' /\ metricsMapPrometheus'[n] = metricsMapPrometheus[n]
      /\ \A key \in DOMAIN counters : key \in DOMAIN counters'
    ]_vars

\* The family m was created with the labels {a}; since then an Update has
\* counted on it, a Create has completed and a scrape has completed, and the
\* family and the built-in counter are still registered.
C19_Witness ==
  /\ scrape = "done" /\ mLa \in DOMAIN snap
  /\ \E t, u \in Tasks :
       /\ op[t] = "create" /\ pc[t] = "done" /\ incs[t] # <<>>
       /\ op[u] = "update" /\ pc[u] = "done" /\ incs[u] # <<>>
  /\ registry["m"] = {"a"} /\ metricsMapPrometheus["m"] = {"a"}
  /\ PingName \in DOMAIN registry

(***************************************************************************)
(* C20: sample/schema invariant: every label vector with a live counter    *)
(* belongs to a registered family and has exactly the label names of that  *)
(* family, none missing and none extra.                                    *)
(***************************************************************************)
C20_SamplesMatchSchema ==
  \A key \in DOMAIN counters :
    /\ key[1] \in DOMAIN registry
    /\ getKeys(key[2]) = registry[key[1]]
    /\ key[1] \in DOMAIN metricsMapPrometheus =>
         getKeys(key[2]) = metricsMapPrometheus[key[1]]

\* Two label vectors of the family m live side by side, both counted, after
\* a sample with another label set was offered to the family.
C20_Witness ==
  /\ DOMAIN counters = {mLa, <<"m", Lay>>}
  /\ counters[mLa] > 0 /\ counters[<<"m", Lay>>] > 0
  /\ \E t \in Tasks : firstKeys[t] = <<{"a", "b"}>> /\ pc[t] = "loop" /\ result[t] = <<>>
       /\ more[t] = 0


\* C21: two samples with the same label pairs go to the same counter of the
\* vector, whatever the order in which their payloads listed the pairs and
\* whatever the order in which the label map was ranged: a line for the label
\* map of the line before it goes to the same child.
C21_PermutedPairsOneCounter ==
  [][(child.listings # {} /\ child'.labels = child.labels) => child'.key = child.key]_vars

\* Two samples in a row with the same two label pairs, listed in the two
\* orders, have gone to one child.
C21_Witness ==
  /\ Cardinality(child.labels) = 2
  /\ Cardinality(child.listings) = 2
  /\ line # NoLine


\* C22: the gate of /create and /update: the handler goes on to read the body
\* only for a POST whose Content-Type has the media type application/json or
\* application/x-www-form-urlencoded; for every other request it answers with
\* one error text and the status 405, 400 or 415, changes neither the map,
\* the registry nor a counter, and takes no further step.
C22_GateRefusesWithoutEffect ==
  [][\A t \in Tasks :
       /\ (pc[t] = "gate" /\ pc'[t] # "gate") =>
            IF /\ hdr[t].method = "POST"
               /\ hdr[t].contentType \in
                    {"application/json", "application/json; charset=utf-8",
                     "application/x-www-form-urlencoded"}
              THEN body'[t] \in Bodies
              ELSE /\ pc'[t] = "done"
                   /\ status'[t] =
                        (IF hdr[t].method # "POST" THEN "405"
                         ELSE IF hdr[t].contentType = "" THEN "400" ELSE "415")
                   /\ Len(w'[t]) = 1
                   /\ w'[t][1].kind \in {"Method not allowed", "Content-Type header required",
                                         "Invalid Content-Type"}
                   /\ body'[t] = "none"
                   /\ shared' = shared
                   /\ incs' = incs
       /\ (pc[t] = "done" /\ body[t] = "none") =>
            /\ pc'[t] = "done" /\ incs'[t] = <<>> /\ w'[t] = w[t] /\ status'[t] = status[t]]_vars

\* A request with another media type has been refused with 415 after another
\* request had built up a counter, which is still there.
C22_Witness ==
  \E t, u \in Tasks :
    /\ pc[t] = "done" /\ status[t] = "415" /\ body[t] = "none"
    /\ pc[u] = "done" /\ status[u] = "200" /\ incs[u] # <<>>
    /\ \A i \in DOMAIN incs[u] : incs[u][i].key \in DOMAIN counters


\* C23: a request to /ping adds exactly 1 to the ping_request_count child
\* whose labels are the query parameters, with /tmp/kafka_upload, pingpong
\* and default-receiver-sre for a path, instance and receiver not given, and
\* to no other child; the map of the created families, the registry and all
\* their counters stay as they are.
C23_PingCountsOnceAndOnlyPing ==
  [][npings' # npings =>
       LET vec == {<<n, IF query'[n] # "" THEN query'[n]
                        ELSE IF n = "path" THEN "/tmp/kafka_upload"
                        ELSE IF n = "instance" THEN "pingpong"
                        ELSE IF n = "receiver" THEN "default-receiver-sre"
                        ELSE "">> : n \in someLabels}
           before == IF vec \in DOMAIN pingCounterPrometheus
                       THEN pingCounterPrometheus[vec] ELSE 0
       IN /\ DOMAIN pingCounterPrometheus' = DOMAIN pingCounterPrometheus \cup {vec}
          /\ pingCounterPrometheus'[vec] = before + 1
          /\ \A k \in DOMAIN pingCounterPrometheus :
               k # vec => pingCounterPrometheus'[k] = pingCounterPrometheus[k]
          /\ metricsMapPrometheus' = metricsMapPrometheus
          /\ registry' = registry
          /\ counters' = counters]_vars

\* A ping without a path has counted on the child of the default path, receiver
\* and instance while a created family holds a counter.
C23_Witness ==
  /\ npings = MaxPings
  /\ query["path"] = ""
  /\ \E k \in DOMAIN pingCounterPrometheus :
       /\ {<<"path", "/tmp/kafka_upload">>, <<"receiver", "default-receiver-sre">>,
           <<"instance", "pingpong">>, <<"webhook", "">>} \subseteq k
       /\ pingCounterPrometheus[k] >= 1
  /\ mLa \in DOMAIN counters /\ counters[mLa] > 0


\* C24: after every step each name of the map is registered, with the label
\* names the map holds for it; a Create sample whose Register fails because
\* the name is taken (as ping_request_count always is) is dropped with the
\* map, the registry, the counters, the increments and the lines unchanged;
\* and ping_request_count never gets a map entry, a counter or a line.
C24_MapEntriesAreRegistered ==
  [][/\ \A n \in DOMAIN metricsMapPrometheus' :
          n \in DOMAIN registry' /\ registry'[n] = metricsMapPrometheus'[n]
     /\ \A t \in Tasks :
          (pc[t] = "register" /\ pc'[t] # "register" /\ fname(t) \in DOMAIN registry) =>
            /\ pc'[t] = "loop"
            /\ shared' = shared
            /\ incs' = incs
            /\ result'[t] = result[t] /\ w'[t] = w[t]
     /\ PingName \notin DOMAIN metricsMapPrometheus'
     /\ registry'[PingName] = someLabels
     /\ \A key \in DOMAIN counters' : key[1] # PingName
     /\ \A t \in Tasks : \A i \in DOMAIN result'[t] : result'[t][i].name # PingName]_vars

\* A Create for ping_request_count has tried to register its only sample,
\* which was well-formed (the label b comes with the value 1 only), and has
\* returned to its loop with nothing recorded.
C24_Witness ==
  \E t \in Tasks :
    /\ op[t] = "create" /\ pc[t] = "loop" /\ more[t] = 0
    /\ decoded[t] = <<PingName>>
    /\ firstKeys[t] = <<{"b"}>>
    /\ item[t] = NoItem
    /\ result[t] = <<>> /\ incs[t] = <<>>
    /\ counters = <<>> /\ metricsMapPrometheus = <<>>


\* C25: no step lowers a counter: every label vector that has a counter keeps
\* it with a value at least as high as before, a new counter starts at 0 or
\* above, and the step in which counter.Add refuses a negative value leaves
\* every counter that existed at its value.
C25_CountersNeverDecrease ==
  [][/\ \A key \in DOMAIN counters :
          key \in DOMAIN counters' /\ counters'[key] >= counters[key]
     /\ \A key \in DOMAIN counters' : counters'[key] >= 0
     /\ \A t \in Tasks :
          (pc[t] = "get" /\ pc'[t] = "panicked") =>
            \A key \in DOMAIN counters : counters'[key] = counters[key]]_vars

\* A Create sample with the value -1 has been refused on a counter that held
\* 1.0 or more, and the counter still holds it.
C25_Witness ==
  \E t \in Tasks :
    /\ pc[t] = "panicked"
    /\ item[t].value = "-1"
    /\ fname(t) = "m" /\ item[t].labels = La
    /\ mLa \in DOMAIN counters /\ counters[mLa] >= 2


\* C26: in a request to /metrics at most one send on the channel completes
\* and at most one response is written; a handler that has returned has
\* received one message and written one response, its helper has returned
\* too, and its message is "" on the two error paths and the body on the
\* success path; and a handler waiting at its receive always gets on to
\* return, with the helper not left at its send.
C26_HandOffCompletes ==
  /\ [](\A t \in Tasks :
          /\ sends[t] <= 1 /\ Len(reply[t]) <= 1
          /\ handler[t] = "done" =>
               /\ sends[t] = 1 /\ Len(reply[t]) = 1
               /\ helper[t] = "done"
               /\ data[t].sent
               /\ path[t] \in {"fetch error", "read error"} => data[t].text = ""
               /\ path[t] = "success" => data[t].text \in ScrapeBodies)
  /\ \A t \in Tasks :
       (handler[t] = "receive") ~> (handler[t] = "done" /\ helper[t] = "done")

\* The handlers of two requests have returned, one after a fetch error and one
\* after a success.
C26_Witness ==
  \E t, u \in Tasks :
    /\ handler[t] = "done" /\ path[t] = "fetch error" /\ reply[t] = <<"">>
    /\ handler[u] = "done" /\ path[u] = "success" /\ sends[u] = 1


\* C27: mfChan is closed once at most, and only when the parser has no family
\* left to send; what the caller has collected is always the beginning of
\* what the parser sent, in that order; when parseInputToMetrics has returned
\* the channel has been closed exactly once, done is closed, and the result is
\* everything the parser sent, in the order sent: every family of an accepted
\* text once, and nothing for a text the parser refused; and every call
\* returns in the end, also for a text of more families than the buffer holds.
C27_TextDecodingCompletes ==
  /\ [](/\ closes <= 1
        /\ closes = 1 => (unsent = {} /\ parser \in {"signal", "end"})
        /\ Len(parsed) <= Len(delivered)
        /\ \A i \in DOMAIN parsed : parsed[i] = delivered[i]
        /\ caller = "returned" =>
             /\ closes = 1 /\ done /\ parser = "end"
             /\ parsed = delivered
             /\ mfChan = <<>>
             /\ Len(parsed) = (IF textIn.ok THEN Len(textIn.families) ELSE 0)
             /\ \A i \in DOMAIN parsed : \E j \in DOMAIN textIn.families :
                  parsed[i] = textIn.families[j])
  /\ (caller = "range") ~> (caller = "returned")

\* A text of more families than the buffer holds has been decoded completely.
C27_Witness ==
  /\ caller = "returned"
  /\ textIn.ok
  /\ Len(textIn.families) > ChanCap
  /\ Len(parsed) = Len(textIn.families)


\* C28: the families the handler loops over, and with them the lines of its
\* response, come in the order in which the batch has them: for a batch sent
\* as text, the list parseInputToMetrics returns has the families in the order
\* of the text.
C28_FamiliesInBatchOrder ==
  (caller = "returned" /\ textIn.ok) => parsed = textIn.families

====
